---- MODULE Spec2Model ----
(***************************************************************************)
(* Model of the three real-estate dashboards of mootionstudio/realAi:      *)
(*   us_real_estate.py       extraction-based US dashboard                 *)
(*   unnamed/part_000        extraction-based dashboard, embedded keys     *)
(*   ai_real_estate_agent.py coordinate-based dashboard (RapidAPI)         *)
(*                                                                         *)
(* Text is modelled as a sequence of one-character strings, numbers as     *)
(* integers, Python's None and a missing dict key as tagged values.        *)
(*                                                                         *)
(* Note: us_real_estate.py line 140 holds an f-string replacement field    *)
(* "{regional_data.get('tax_rate', 0)%}", which CPython rejects as a       *)
(* SyntaxError, so that file does not load as shipped.  Its functions are  *)
(* modelled here from their text, as they behave once that field parses.   *)
(***************************************************************************)
EXTENDS Integers, Sequences, FiniteSets, TLC

VARIABLES
    \* ---- input normalizer (parse_location) ----
    location,       \* the location text handed to parse_location
    parsed,         \* its outcome, NotCalled before the call
    \* ---- property mapper (search_properties_rapidapi) ----
    response,       \* the outcome of requests.get(...) handed to the mapper
    mapped,         \* the mapper's outcome, NotCalled before the call
    rendered,       \* the lines formatted from the mapped records
    \* ---- the dashboards: what lasts for the session ----
    app,            \* which dashboard runs: "us", "intl" (part_000) or "coord"
    keys,           \* which provider keys are present (entered, stored or embedded)
    model_id,       \* st.session_state.model_id
    property_agent, \* st.session_state.property_agent
    cache,          \* the lru_cache of cached_search, least recently used first
    filters,        \* the search inputs of the page
    log,            \* the last two find_properties invocations of the session, in order
    \* ---- the dashboards: the current run of main() ----
    pc,             \* "idle", or the external call main() is blocked in
    pressed,        \* whether this run was started by the search button
    calls,          \* external requests issued in this run
    shown,          \* messages displayed in this run
    sections,       \* outputs rendered in this run
    uncaught,       \* the exception that left main() in this run, "" for none
    prompt,         \* the analysis prompt handed to the model in this run
    \* ---- the search functions called on their own ----
    invoked         \* the function, its inputs and, after the call, its outcome

locVars == <<location, parsed>>
mapVars == <<response, mapped, rendered, invoked>>
sessionVars == <<app, keys, model_id, property_agent, cache, filters, log>>
runVars == <<pc, pressed, calls, shown, sections, uncaught, prompt>>
vars == <<location, parsed, response, mapped, rendered,
          app, keys, model_id, property_agent, cache, filters, log,
          pc, pressed, calls, shown, sections, uncaught, prompt, invoked>>

NotCalled == [called |-> FALSE]

----------------------------------------------------------------------------
(* Bounds of the model *)

MaxLocLen == 4
MaxRecords == 2

----------------------------------------------------------------------------
(* Text helpers: Python str methods on sequences of characters *)

\* the characters location texts are built from
LocChars == {"a", "A", " ", ","}

\* all texts over cs of length at most n
RECURSIVE TextsUpTo(_, _)
TextsUpTo(cs, n) ==
    IF n = 0 THEN {<<>>}
    ELSE LET shorter == TextsUpTo(cs, n - 1)
         IN  shorter \cup {Append(t, c) : t \in {u \in shorter : Len(u) = n - 1}, c \in cs}

\* str.upper() on one character / on a text
UpperChar(c) == IF c = "a" THEN "A" ELSE c
Upper(s) == [i \in 1..Len(s) |-> UpperChar(s[i])]

\* str.lower() on one character / on a text
LowerChar(c) == IF c = "A" THEN "a" ELSE c
Lower(s) == [i \in 1..Len(s) |-> LowerChar(s[i])]

\* str.replace(c, d) for single characters
Replace(s, c, d) == [i \in 1..Len(s) |-> IF s[i] = c THEN d ELSE s[i]]

\* ',' in s
Contains(s, c) == \E i \in 1..Len(s) : s[i] = c

\* str.strip(): drop leading and trailing whitespace
RECURSIVE LStrip(_)
LStrip(s) == IF s # <<>> /\ Head(s) = " " THEN LStrip(Tail(s)) ELSE s
RECURSIVE RStrip(_)
RStrip(s) == IF s # <<>> /\ s[Len(s)] = " " THEN RStrip(SubSeq(s, 1, Len(s) - 1)) ELSE s
Strip(s) == RStrip(LStrip(s))

\* str.split(sep): the list of pieces between every occurrence of sep
RECURSIVE SplitAcc(_, _, _)
SplitAcc(s, sep, cur) ==
    IF s = <<>> THEN <<cur>>
    ELSE IF Head(s) = sep THEN <<cur>> \o SplitAcc(Tail(s), sep, <<>>)
    ELSE SplitAcc(Tail(s), sep, Append(cur, Head(s)))
Split(s, sep) == SplitAcc(s, sep, <<>>)

----------------------------------------------------------------------------
(* us_real_estate.py: PropertyFindingAgent.parse_location *)

\* a returned (city, state) pair; hasState = FALSE stands for state = None
Pair(c, st, has) ==
    [called |-> TRUE, raised |-> FALSE, exc |-> "", city |-> c, state |-> st, hasState |-> has]
\* an exception leaving the call
Raised(e) ==
    [called |-> TRUE, raised |-> TRUE, exc |-> e, city |-> <<>>, state |-> <<>>, hasState |-> FALSE]

\* mutant: the pieces are not stripped
parse_location_nostrip(loc) ==
    IF Contains(loc, ",")
    THEN LET parts == Split(loc, ",")
         IN  IF Len(parts) # 2
             THEN Raised("ValueError")
             ELSE Pair(parts[1], Upper(parts[2]), TRUE)
    ELSE Pair(loc, <<>>, FALSE)

parse_location(loc) ==
    IF Contains(loc, ",")
    THEN LET parts == Split(loc, ",")
         IN  IF Len(parts) # 2
             THEN Raised("ValueError")     \* city, state = <3 or more values>
             ELSE Pair(Strip(parts[1]), Upper(Strip(parts[2])), TRUE)
    ELSE Pair(loc, <<>>, FALSE)

----------------------------------------------------------------------------
(* Raw JSON values of a directory-API record.                               *)
(* t = "absent": the key is missing; "null": JSON null; "num": a number n;  *)
(* "str": a text s.                                                         *)

Abs == [t |-> "absent", n |-> 0, s |-> <<>>]
Null == [t |-> "null", n |-> 0, s |-> <<>>]
Num(k) == [t |-> "num", n |-> k, s |-> <<>>]
Str(txt) == [t |-> "str", n |-> 0, s |-> txt]

\* Python's None / a number, as the value of an Optional field
None == [some |-> FALSE, n |-> 0]
Some(k) == [some |-> TRUE, n |-> k]

\* dict.get(key): a missing key reads as None
Get(v) == IF v.t = "absent" THEN Null ELSE v

\* Python truthiness of a raw value: None, 0 and "" are falsy
Truthy(v) ==
    CASE v.t = "num" -> v.n # 0
      [] v.t = "str" -> v.s # <<>>
      [] OTHER -> FALSE

DigitChars == {"0", "1", "2", "3", "4", "5", "6", "7", "8", "9"}
DigitVal(c) == CHOOSE d \in 0..9 : <<"0", "1", "2", "3", "4", "5", "6", "7", "8", "9">>[d + 1] = c

RECURSIVE DigitsValue(_)
DigitsValue(ds) ==
    IF ds = <<>> THEN 0
    ELSE 10 * DigitsValue(SubSeq(ds, 1, Len(ds) - 1)) + DigitVal(ds[Len(ds)])

AllDigits(ds) == ds # <<>> /\ \A i \in 1..Len(ds) : ds[i] \in DigitChars

\* float(text) / int(text) on the texts of this model (digits, sign, blanks,
\* commas, letters): surrounding blanks and one leading sign are accepted,
\* anything else is a ValueError.  The numbers of the model are whole, so a
\* float and an int field accept the same values.
ParseNumber(txt) ==
    LET t == Strip(txt)
        signed == t # <<>> /\ Head(t) \in {"+", "-"}
        ds == IF signed THEN Tail(t) ELSE t
    IN  IF AllDigits(ds)
        THEN [ok |-> TRUE,
              n |-> IF signed /\ Head(t) = "-" THEN 0 - DigitsValue(ds) ELSE DigitsValue(ds)]
        ELSE [ok |-> FALSE, n |-> 0]

\* str.replace(c, '')
RemoveChar(txt, c) == SelectSeq(txt, LAMBDA x : x # c)

----------------------------------------------------------------------------
(* ai_real_estate_agent.py: search_properties_rapidapi and its helpers *)

\* safe_float(val, default=None)
safe_float(val) ==
    CASE val.t = "str" ->
            LET p == ParseNumber(Strip(RemoveChar(val.s, "+")))
            IN  IF p.ok THEN Some(p.n) ELSE None       \* ValueError -> default
      [] val.t = "num" -> Some(val.n)
      [] OTHER -> None                                  \* float(None): TypeError -> default

\* pydantic validation of a field: [ok, v]
Valid(v) == [ok |-> TRUE, v |-> v]
Invalid == [ok |-> FALSE, v |-> None]

\* price: float (required)
ValidateFloat(val) ==
    CASE val.t = "num" -> Valid(Some(val.n))
      [] val.t = "str" -> LET p == ParseNumber(val.s)
                          IN  IF p.ok THEN Valid(Some(p.n)) ELSE Invalid
      [] OTHER -> Invalid

\* square_feet: Optional[float], bedrooms: Optional[int]
ValidateOptional(val) ==
    IF val.t \in {"absent", "null"} THEN Valid(None) ELSE ValidateFloat(val)

\* PropertyData(...) built from one raw record: [ok, exc, rec]
MapFailed(e) ==
    [ok |-> FALSE, exc |-> e,
     rec |-> [building_name |-> "", property_type |-> "", price |-> 0,
              square_feet |-> None, bedrooms |-> None, bathrooms |-> None]]

\* raw text values (address line, property type): a missing key, null, a text
TAbs == [t |-> "absent", s |-> ""]
TNull == [t |-> "null", s |-> ""]
TStr(x) == [t |-> "str", s |-> x]

\* a text field read with: d.get(key) or "N/A"
OrNA(v) == IF v.t = "str" /\ v.s # "" THEN v.s ELSE "N/A"

\* the body of the per-record try block
MapRecord(raw) ==
    IF ~raw.isDict                       \* prop_api.get on a non-dict
       \/ raw.location = "null"          \* None.get("address", {})
       \/ raw.address = "null"           \* None.get("line")
       \/ raw.description = "null"       \* None.get("type")
    THEN MapFailed("AttributeError")
    ELSE LET \* .get(key, {}): a missing block reads as an empty dict
             hasAddress == raw.location = "dict" /\ raw.address = "dict"
             hasDescription == raw.description = "dict"
             line == IF hasAddress THEN raw.line ELSE TAbs
             type == IF hasDescription THEN raw.type ELSE TAbs
             sqft == IF hasDescription THEN raw.sqft ELSE Abs
             beds == IF hasDescription THEN raw.beds ELSE Abs
             baths == IF hasDescription THEN raw.baths ELSE Abs
             lp == Get(raw.list_price)
             price == IF Truthy(lp) THEN lp ELSE Num(0)     \* ... or 0.0
             priceV == ValidateFloat(price)
             sqftV == ValidateOptional(Get(sqft))
             bedsV == ValidateOptional(Get(beds))
         IN  IF ~(priceV.ok /\ sqftV.ok /\ bedsV.ok)
             THEN MapFailed("ValidationError")
             ELSE [ok |-> TRUE, exc |-> "",
                   rec |-> [building_name |-> OrNA(line),
                            property_type |-> OrNA(type),
                            price |-> priceV.v.n,
                            square_feet |-> sqftV.v,
                            bedrooms |-> bedsV.v,
                            bathrooms |-> safe_float(Get(baths))]]

\* mutant: one try block around the whole loop, the first failure ends it
RECURSIVE MapLoop_abort(_, _)
MapLoop_abort(raws, acc) ==
    IF raws = <<>> THEN acc
    ELSE LET m == MapRecord(Head(raws))
         IN  IF m.ok
             THEN MapLoop_abort(Tail(raws), [acc EXCEPT !.props = Append(@, m.rec)])
             ELSE [acc EXCEPT !.shown = @ \cup {"err_map"}]

\* for prop_api in results_list: try ... except Exception: st.error(...)
RECURSIVE MapLoop(_, _)
MapLoop(raws, acc) ==
    IF raws = <<>> THEN acc
    ELSE LET m == MapRecord(Head(raws))
         IN  IF m.ok
             THEN MapLoop(Tail(raws), [acc EXCEPT !.props = Append(@, m.rec)])
             ELSE MapLoop(Tail(raws), [acc EXCEPT !.shown = @ \cup {"err_map"}])

\* what search_properties_rapidapi hands back: the list, the messages shown
Returned(ps, msgs) == [called |-> TRUE, raised |-> FALSE, props |-> ps, shown |-> msgs]

search_properties_rapidapi(resp) ==
    CASE resp.kind \in {"network_error", "http_error"} ->
            Returned(<<>>, {"err_network"})           \* RequestException
      [] resp.kind = "bad_json" ->
            Returned(<<>>, {"err_json"})              \* response.json() fails
      [] resp.kind = "not_object" ->
            Returned(<<>>, {"err_unexpected"})        \* list.get: AttributeError
      [] resp.kind = "json" ->
            IF ~resp.hasProperties \/ resp.properties = <<>>
            THEN Returned(<<>>, {"warn_no_results"})
            ELSE MapLoop(resp.properties, Returned(<<>>, {}))

----------------------------------------------------------------------------
(* ai_real_estate_agent.py: the places that format a PropertyData *)

\* f"{x or marker}": the marker replaces None and every falsy number
OrMarker(opt, marker) ==
    IF opt.some /\ opt.n # 0 THEN [marker |-> "", n |-> opt.n] ELSE [marker |-> marker, n |-> 0]

\* main: one line of properties_str in the analysis prompt
PromptLine(p) ==
    [building_name |-> p.building_name,
     property_type |-> p.property_type,
     price |-> p.price,
     bedrooms |-> OrMarker(p.bedrooms, "N/A"),
     bathrooms |-> OrMarker(p.bathrooms, "N/A"),
     square_feet |-> OrMarker(p.square_feet, "N/A")]

\* generate_summary: one line of prompt_details
SummaryLine(p) ==
    [bedrooms |-> OrMarker(p.bedrooms, "N/A"),
     bathrooms |-> OrMarker(p.bathrooms, "N/A")]

\* main: the last line of a property card
CardLine(p) ==
    [bedrooms |-> OrMarker(p.bedrooms, "-"),
     bathrooms |-> OrMarker(p.bathrooms, "-"),
     square_feet |-> OrMarker(p.square_feet, "-")]

\* min(n, 10): the records of property_results[:10]
FirstTen(props) == SubSeq(props, 1, IF Len(props) < 10 THEN Len(props) ELSE 10)

\* mutant: a bar for each record that has an area, whatever the others have
PricePerSqft_each(props) ==
    LET shownRecs == FirstTen(props)
        has(p) == p.square_feet.some /\ p.square_feet.n > 0
    IN  [drawn |-> \E i \in 1..Len(shownRecs) : has(shownRecs[i]),
         bars |-> [i \in 1..Len(shownRecs) |->
                     IF has(shownRecs[i])
                     THEN [has |-> TRUE, price |-> shownRecs[i].price,
                           area |-> shownRecs[i].square_feet.n]
                     ELSE [has |-> FALSE, price |-> 0, area |-> 0]]]

\* main: the price-per-sqft chart.  The column is divided only when every
\* record of the table has an area and every area is > 0; a bar is the
\* quotient price / area, kept here as the pair
PricePerSqft(props) ==
    LET shownRecs == FirstTen(props)
        all == \A i \in 1..Len(shownRecs) :
                  shownRecs[i].square_feet.some /\ shownRecs[i].square_feet.n > 0
    IN  [drawn |-> all,
         bars |-> [i \in 1..Len(shownRecs) |->
                     IF all
                     THEN [has |-> TRUE, price |-> shownRecs[i].price,
                           area |-> shownRecs[i].square_feet.n]
                     ELSE [has |-> FALSE, price |-> 0, area |-> 0]]]

----------------------------------------------------------------------------
(* The dashboards: session state and the run of main() *)

Apps == {"us", "intl", "coord"}

NoKeys == [listing |-> FALSE, model |-> FALSE]
BothKeys == [listing |-> TRUE, model |-> TRUE]
KeyStates == [listing : BOOLEAN, model : BOOLEAN]
HasBoth(k) == k.listing /\ k.model

\* the options of the model selectbox, the first one selected at start
ModelIds(a) ==
    CASE a = "us" -> <<"gpt-4o", "gpt-4-turbo">>
      [] a = "intl" -> <<"gpt-3.5-turbo", "gpt-4-turbo">>
      [] OTHER -> <<"gpt-3.5-turbo">>

NoAgent == [exists |-> FALSE, model_id |-> "", keys |-> NoKeys]

\* location texts of a search: none, a city of two words, "city, st",
\* "city, ST, more"
L_empty == <<>>
L_city == <<"A", " ", "a">>
L_cityState == <<"a", ",", " ", "a">>
L_three == <<"a", ",", "A", ",", "a">>
SearchLocations == {L_empty, L_city, L_cityState, L_three}

\* the search inputs of each page: the first value is the widget's default.
\* part_000 has no property-type input (find_properties is called with its
\* default "Flat"); the coordinate dashboard has no location text.
PropertyTypes(a) ==
    CASE a = "us" -> <<"Single-Family Home", "Condo">>
      [] a = "intl" -> <<"Flat">>
      [] OTHER -> <<"Any", "Condo">>
MaxPrices(a) ==
    CASE a = "us" -> <<450000, 500000>>
      [] a = "intl" -> <<500, 450>>
      [] OTHER -> <<0, 450000>>
Range(f) == {f[i] : i \in DOMAIN f}
Filters(a) ==
    [location : IF a = "coord" THEN {L_empty} ELSE SearchLocations,
     property_type : Range(PropertyTypes(a)),
     max_price : Range(MaxPrices(a))]
StartFilters(a) ==
    [location |-> L_empty, property_type |-> PropertyTypes(a)[1], max_price |-> MaxPrices(a)[1]]

NoCalls == [listings |-> 0, model |-> 0, geocode |-> 0]

\* the analysis prompt of a run: whether it was handed to the model, the
\* constraints its text restates, the listings it embeds (the extraction
\* adapters' list, the coordinate dashboard's properties_str lines)
NoPrompt ==
    [sent |-> FALSE, max_price |-> None, property_type |-> "", listing |-> "none",
     properties |-> <<>>]

\* no run of main() has happened, nothing is displayed
InitRun ==
    /\ pc = "idle"
    /\ pressed = FALSE
    /\ calls = NoCalls
    /\ shown = {}
    /\ sections = {}
    /\ uncaught = ""
    /\ prompt = NoPrompt

InitDashIdle ==
    /\ app = "coord"
    /\ keys = NoKeys
    /\ model_id = "gpt-3.5-turbo"
    /\ property_agent = NoAgent
    /\ cache = <<>>
    /\ filters = StartFilters("coord")
    /\ log = <<>>
    /\ InitRun

----------------------------------------------------------------------------
(* Specification of the input normalizer: any location text, then the call *)

Locations == TextsUpTo(LocChars, MaxLocLen)

InitMapIdle ==
    /\ response = [kind |-> "none"]
    /\ mapped = NotCalled
    /\ rendered = NotCalled
    /\ invoked = NotCalled

InitLoc ==
    /\ location \in Locations
    /\ parsed = NotCalled
    /\ InitMapIdle
    /\ InitDashIdle

\* the caller hands the location text to parse_location
ParseLocation ==
    /\ ~parsed.called
    /\ parsed' = parse_location(location)
    /\ UNCHANGED <<location, mapVars, sessionVars, runVars>>

\* the user types another location
EnterLocation ==
    /\ parsed.called
    /\ \E l \in Locations : location' = l
    /\ parsed' = NotCalled
    /\ UNCHANGED <<mapVars, sessionVars, runVars>>

NextLoc == ParseLocation \/ EnterLocation

SpecLoc == InitLoc /\ [][NextLoc]_vars

----------------------------------------------------------------------------
(* Claims about parse_location *)

CommaCount(s) == Cardinality({i \in 1..Len(s) : s[i] = ","})
FirstComma(s) == CHOOSE i \in 1..Len(s) : s[i] = "," /\ \A j \in 1..(i - 1) : s[j] # ","
BeforeFirstComma(s) == SubSeq(s, 1, FirstComma(s) - 1)
AfterFirstComma(s) == SubSeq(s, FirstComma(s) + 1, Len(s))
\* the text without its leading and trailing blanks, stated without recursion
Trimmed(s) ==
    LET keep == {i \in 1..Len(s) : s[i] # " "}
    IN  IF keep = {} THEN <<>>
        ELSE SubSeq(s, CHOOSE i \in keep : \A j \in keep : i <= j,
                       CHOOSE i \in keep : \A j \in keep : i >= j)

\* C6 (as stated): one comma gives (trimmed text before, trimmed text after),
\* no comma gives (location, None) with the input unchanged.
C6_AsStated ==
    parsed.called =>
        /\ CommaCount(location) = 1 =>
              /\ ~parsed.raised
              /\ parsed.hasState
              /\ parsed.city = Trimmed(BeforeFirstComma(location))
              /\ parsed.state = Trimmed(AfterFirstComma(location))
        /\ CommaCount(location) = 0 =>
              /\ ~parsed.raised
              /\ ~parsed.hasState
              /\ parsed.city = location

\* C6 (amended): one comma gives (trimmed text before, trimmed text after in
\* upper case); no comma gives (location, None) with the input unchanged.
C6_ParseLocation ==
    parsed.called =>
        /\ CommaCount(location) = 1 =>
              /\ ~parsed.raised
              /\ parsed.hasState
              /\ parsed.city = Trimmed(BeforeFirstComma(location))
              /\ parsed.state = Upper(Trimmed(AfterFirstComma(location)))
        /\ CommaCount(location) = 0 =>
              /\ ~parsed.raised
              /\ ~parsed.hasState
              /\ parsed.city = location

\* a one-comma location with blanks around a lower-case state has been parsed
C6_Witness ==
    /\ parsed.called
    /\ location = <<"a", ",", " ", "a">>
    /\ parsed.city = <<"a">>
    /\ parsed.state = <<"A">>

\* C7: parse_location rejects nothing: for every location text it returns the
\* pair obtained by splitting on the first comma only, and never raises.
C7_RejectsNothing ==
    parsed.called =>
        /\ ~parsed.raised
        /\ CommaCount(location) >= 1 =>
              /\ parsed.hasState
              /\ parsed.city = Trimmed(BeforeFirstComma(location))

----------------------------------------------------------------------------
(* Specification of the property mapper: any response of the directory API, *)
(* then search_properties_rapidapi, then the formatting of its records      *)

\* texts the upstream sends in numeric fields
T_4plus == <<"4", "+">>
T_4 == <<"4">>
T_price == <<"3", "5", "0", ",", "0", "0", "0", "+">>
T_350000 == <<"3", "5", "0", "0", "0", "0">>
T_sqft == <<"1", ",", "2", "0", "0", "+">>
T_text == <<"n", "/", "a">>

\* a well-formed record
BaseRecord ==
    [isDict |-> TRUE, location |-> "dict", address |-> "dict", description |-> "dict",
     line |-> TStr("12 Oak St"), type |-> TStr("condo"),
     list_price |-> Num(2500), beds |-> Num(3), sqft |-> Num(1200), baths |-> Num(2)]

PriceValues == {Abs, Null, Num(0), Num(-5), Str(T_price), Str(T_350000), Str(T_4plus), Str(T_text)}
BedsValues == {Abs, Null, Num(0), Str(T_4plus), Str(T_4), Str(T_text)}
SqftValues == {Abs, Null, Num(0), Str(T_sqft), Str(T_text)}
BathsValues == {Abs, Null, Num(0), Str(T_4plus), Str(T_4), Str(T_price), Str(T_text)}

\* the records of the model: the well-formed one, and it with one part changed
RawRecords ==
    {BaseRecord}
    \cup {[BaseRecord EXCEPT !.list_price = v] : v \in PriceValues}
    \cup {[BaseRecord EXCEPT !.beds = v] : v \in BedsValues}
    \cup {[BaseRecord EXCEPT !.sqft = v] : v \in SqftValues}
    \cup {[BaseRecord EXCEPT !.baths = v] : v \in BathsValues}
    \cup {[BaseRecord EXCEPT !.line = v] : v \in {TAbs, TNull, TStr("")}}
    \cup {[BaseRecord EXCEPT !.type = v] : v \in {TAbs, TNull}}
    \cup {[BaseRecord EXCEPT !.location = k, !.address = "absent", !.line = TAbs] :
              k \in {"absent", "null"}}
    \cup {[BaseRecord EXCEPT !.address = k, !.line = TAbs] : k \in {"absent", "null"}}
    \cup {[BaseRecord EXCEPT !.description = k, !.type = TAbs, !.beds = Abs,
                              !.sqft = Abs, !.baths = Abs] : k \in {"absent", "null"}}
    \cup {[BaseRecord EXCEPT !.isDict = FALSE]}
    \cup {[BaseRecord EXCEPT !.beds = Abs, !.sqft = Abs, !.baths = Abs]}

RecordLists == UNION {[1..n -> RawRecords] : n \in 0..MaxRecords}

Json(has, recs) == [kind |-> "json", hasProperties |-> has, properties |-> recs]
Failure(k) == [kind |-> k, hasProperties |-> FALSE, properties |-> <<>>]

Responses ==
    {Failure(k) : k \in {"network_error", "http_error", "bad_json", "not_object"}}
    \cup {Json(FALSE, <<>>)}
    \cup {Json(TRUE, recs) : recs \in RecordLists}

InitLocIdle ==
    /\ location = <<>>
    /\ parsed = NotCalled

InitMap ==
    /\ response \in Responses
    /\ mapped = NotCalled
    /\ rendered = NotCalled
    /\ invoked = NotCalled
    /\ InitLocIdle
    /\ InitDashIdle

\* main calls search_properties_rapidapi on the upstream's response
SearchRapidApi ==
    /\ ~mapped.called
    /\ mapped' = search_properties_rapidapi(response)
    /\ UNCHANGED <<locVars, response, rendered, invoked, sessionVars, runVars>>

\* the records are formatted: prompt lines (first 10), summary lines, cards,
\* the price-per-sqft chart
Render ==
    /\ mapped.called
    /\ ~rendered.called
    /\ mapped.props # <<>>
    /\ rendered' =
          [called |-> TRUE,
           prompt |-> [i \in 1..(IF Len(mapped.props) < 10 THEN Len(mapped.props) ELSE 10)
                          |-> PromptLine(mapped.props[i])],
           summary |-> [i \in 1..Len(mapped.props) |-> SummaryLine(mapped.props[i])],
           cards |-> [i \in 1..Len(mapped.props) |-> CardLine(mapped.props[i])],
           chart |-> PricePerSqft(mapped.props)]
    /\ UNCHANGED <<locVars, response, mapped, invoked, sessionVars, runVars>>

NextMap == SearchRapidApi \/ Render

SpecMap == InitMap /\ [][NextMap]_vars

----------------------------------------------------------------------------
(* Claims about the property mapper *)

Raws == response.properties
WellFormed == {i \in 1..Len(Raws) : MapRecord(Raws[i]).ok}
\* the j-th well-formed record's place in the upstream list
NthWellFormed(j) == CHOOSE i \in WellFormed : Cardinality({k \in WellFormed : k <= i}) = j

\* C4: of N raw records with k malformed ones, search_properties_rapidapi
\* returns exactly the N-k well-formed ones, mapped, in their upstream order.
C4_BatchNotAborted ==
    (mapped.called /\ response.kind = "json" /\ response.hasProperties) =>
        /\ ~mapped.raised
        /\ Len(mapped.props) = Len(Raws) - Cardinality((1..Len(Raws)) \ WellFormed)
        /\ \A j \in 1..Len(mapped.props) :
              mapped.props[j] = MapRecord(Raws[NthWellFormed(j)]).rec

\* a malformed record came first and the well-formed record after it was mapped
C4_Witness ==
    /\ mapped.called
    /\ Len(Raws) = 2
    /\ ~MapRecord(Raws[1]).ok
    /\ Raws[2] = BaseRecord
    /\ Len(mapped.props) = 1
    /\ mapped.props[1].price = 2500

\* a record whose containers are all in place: only field values can be off
Sound(raw) ==
    /\ raw.isDict
    /\ raw.location # "null"
    /\ raw.address # "null"
    /\ raw.description # "null"
SoundPlaces == {i \in 1..Len(Raws) : Sound(Raws[i])}

\* the cleaned number of a raw value: the number itself, or the number a text
\* holds once '+' and ',' are dropped; the default where there is none
Cleaned(v, default) ==
    CASE v.t = "num" -> Some(v.n)
      [] v.t = "str" ->
            LET p == ParseNumber(RemoveChar(RemoveChar(v.s, "+"), ","))
            IN  IF p.ok THEN Some(p.n) ELSE default
      [] OTHER -> default

\* C5 (as stated): a malformed value in list_price, beds, sqft or
\* baths_consolidated loses no record, and the field holds the cleaned number
\* or the declared default.
C5_AsStated ==
    mapped.called =>
        /\ Len(mapped.props) = Cardinality(SoundPlaces)
        /\ \A j \in 1..Len(mapped.props) :
              LET raw == Raws[CHOOSE i \in SoundPlaces :
                                 Cardinality({k \in SoundPlaces : k <= i}) = j]
                  p == mapped.props[j]
              IN  /\ Some(p.price) = Cleaned(raw.list_price, Some(0))
                  /\ p.bedrooms = Cleaned(raw.beds, None)
                  /\ p.square_feet = Cleaned(raw.sqft, None)
                  /\ p.bathrooms = Cleaned(raw.baths, None)

\* a record that lacks optional fields and has nothing else wrong
Missing(v) == v.t \in {"absent", "null"}
LacksOptional(raw) ==
    /\ Sound(raw)
    /\ ValidateFloat(IF Truthy(Get(raw.list_price)) THEN raw.list_price ELSE Num(0)).ok
    /\ \A v \in {raw.beds, raw.sqft} : Missing(v) \/ v.t = "num"
    /\ Missing(raw.beds) \/ Missing(raw.sqft) \/ Missing(raw.baths)

ShowsMarker(cell) == cell.marker # ""

\* C8 (as stated): a record that lacks an optional field is kept, and every
\* formatted line shows the unknown marker for a field exactly when the
\* field is missing; a field that is present with value 0 is shown as 0.
C8_AsStated ==
    rendered.called =>
        /\ Len(mapped.props) >= Cardinality({i \in 1..Len(Raws) : LacksOptional(Raws[i])})
        /\ \A j \in 1..Len(rendered.prompt) :
              /\ ShowsMarker(rendered.prompt[j].bedrooms) <=> ~mapped.props[j].bedrooms.some
              /\ ShowsMarker(rendered.prompt[j].bathrooms) <=> ~mapped.props[j].bathrooms.some
              /\ ShowsMarker(rendered.prompt[j].square_feet) <=> ~mapped.props[j].square_feet.some
        /\ \A j \in 1..Len(rendered.summary) :
              /\ ShowsMarker(rendered.summary[j].bedrooms) <=> ~mapped.props[j].bedrooms.some
              /\ ShowsMarker(rendered.summary[j].bathrooms) <=> ~mapped.props[j].bathrooms.some
        /\ \A j \in 1..Len(rendered.cards) :
              /\ ShowsMarker(rendered.cards[j].bedrooms) <=> ~mapped.props[j].bedrooms.some
              /\ ShowsMarker(rendered.cards[j].bathrooms) <=> ~mapped.props[j].bathrooms.some
              /\ ShowsMarker(rendered.cards[j].square_feet) <=> ~mapped.props[j].square_feet.some

\* the place in the upstream list of the j-th record taken from the places ps
NthOf(ps, j) == CHOOSE i \in ps : Cardinality({k \in ps : k <= i}) = j

\* a nested block that is missing: the key is absent, or its value is null
NoBlock(b) == b \in {"absent", "null"}
NoAddress(raw) == NoBlock(raw.location) \/ NoBlock(raw.address)
\* a record that is a dict and whose price is acceptable: nothing but its
\* nested blocks can be missing
Mappable == {i \in 1..Len(Raws) :
                /\ Raws[i].isDict
                /\ Raws[i].list_price \in {Abs, Null, Num(0), Num(2500)}
                /\ \A v \in {Raws[i].beds, Raws[i].sqft} : Missing(v) \/ v.t = "num"}

\* C16 (as stated): a record whose 'location', 'address' or 'description'
\* block is missing (absent or null) is not dropped: it is mapped, with "N/A"
\* as the text of the affected fields.
C16_AsStated ==
    (mapped.called /\ response.kind = "json" /\ response.hasProperties) =>
        /\ Len(mapped.props) = Cardinality(Mappable)
        /\ \A j \in 1..Len(mapped.props) :
              LET raw == Raws[NthOf(Mappable, j)]
              IN  /\ NoAddress(raw) => mapped.props[j].building_name = "N/A"
                  /\ NoBlock(raw.description) => mapped.props[j].property_type = "N/A"

\* C17 (as stated): every record the mapper returns has price >= 0.
C17_AsStated ==
    mapped.called => \A j \in 1..Len(mapped.props) : mapped.props[j].price >= 0

\* the displayed records (the first ten) and the ones with a usable area
Displayed == 1..Len(FirstTen(mapped.props))
HasArea(p) == p.square_feet.some /\ p.square_feet.n > 0

\* C20 (as stated): the chart holds price / square_feet for each displayed
\* record whose square_feet is present and > 0, and no value for a record
\* whose square_feet is missing or <= 0.
C20_AsStated ==
    rendered.called =>
        \A i \in Displayed :
            /\ rendered.chart.bars[i].has <=> HasArea(mapped.props[i])
            /\ rendered.chart.bars[i].has =>
                  /\ rendered.chart.bars[i].price = mapped.props[i].price
                  /\ rendered.chart.bars[i].area = mapped.props[i].square_feet.n

\* C20 (amended): the chart is drawn only when every displayed record has
\* square_feet present and > 0, and then holds price / square_feet for each
\* of them; otherwise no chart is drawn and no record has a value.  The
\* division is never performed with a zero or missing area.
C20_ChartAllOrNothing ==
    rendered.called =>
        /\ rendered.chart.drawn <=> \A i \in Displayed : HasArea(mapped.props[i])
        /\ Len(rendered.chart.bars) = Cardinality(Displayed)
        /\ \A i \in Displayed :
              /\ rendered.chart.bars[i].has <=> rendered.chart.drawn
              /\ rendered.chart.bars[i].has =>
                    /\ rendered.chart.bars[i].area > 0
                    /\ rendered.chart.bars[i].area = mapped.props[i].square_feet.n
                    /\ rendered.chart.bars[i].price = mapped.props[i].price

\* two records were displayed, one with an area and one without: no chart
C20_Witness ==
    /\ rendered.called
    /\ Len(mapped.props) = 2
    /\ HasArea(mapped.props[1])
    /\ ~mapped.props[2].square_feet.some
    /\ ~rendered.chart.drawn

----------------------------------------------------------------------------
(* The extraction-based adapters: us_real_estate.py and unnamed/part_000 *)

\* what firecrawl.extract hands back: it raises, or returns a payload
NoPayload ==
    [kind |-> "none", isDict |-> FALSE, success |-> FALSE, hasData |-> FALSE,
     hasList |-> FALSE, items |-> 0]
ExtractRaises == [NoPayload EXCEPT !.kind = "raise"]
Payload(d, ok, hd, hl, n) ==
    [kind |-> "payload", isDict |-> d, success |-> ok, hasData |-> hd, hasList |-> hl, items |-> n]

ExtractOutcomes ==
    {ExtractRaises,
     Payload(FALSE, FALSE, FALSE, FALSE, 0),     \* not a dict (None)
     Payload(TRUE, FALSE, FALSE, FALSE, 0),      \* {"success": false}
     Payload(TRUE, TRUE, FALSE, FALSE, 0),       \* success, no "data" block
     Payload(TRUE, TRUE, TRUE, FALSE, 0),        \* success, "data" without the list
     Payload(TRUE, TRUE, TRUE, TRUE, 0),         \* success, an empty list
     Payload(TRUE, TRUE, TRUE, TRUE, 1)}         \* success, listings

Items(l) == [raised |-> FALSE, exc |-> "", items |-> l]
Throws(e) == [raised |-> TRUE, exc |-> e, items |-> "raised"]
ListOf(p) == IF p.hasList /\ p.items > 0 THEN Items("some") ELSE Items("empty")

\* the properties list find_properties takes from the payload
PropertiesOf(a, p) ==
    IF a = "us"
    THEN \* raw_response['data'].get('properties', []) if raw_response.get('success') else []
         IF ~p.isDict THEN Throws("AttributeError")
         ELSE IF ~p.success THEN Items("empty")
         ELSE IF ~p.hasData THEN Throws("KeyError")
         ELSE ListOf(p)
    ELSE \* if isinstance(raw_response, dict) and raw_response.get('success'): ...
         IF p.isDict /\ p.success
         THEN IF ~p.hasData THEN Throws("KeyError") ELSE ListOf(p)
         ELSE Items("empty")

\* the dict literal handed to cached_search is not hashable: the lru_cache
\* wrapper raises TypeError while building its key, before the call
ParamsHashable == FALSE
CacheMaxSize == 100

FindKey(f) ==
    [op |-> "find", location |-> f.location, property_type |-> f.property_type,
     max_price |-> f.max_price]
TrendsKey(f) == [op |-> "trends", location |-> f.location, property_type |-> "", max_price |-> 0]

\* cached_search(params): TypeError, a cached payload, or a call upstream
cached_search(key) ==
    IF ~ParamsHashable THEN [res |-> "TypeError", payload |-> NoPayload]
    ELSE IF \E i \in 1..Len(cache) : cache[i].key = key
    THEN [res |-> "hit", payload |-> cache[CHOOSE i \in 1..Len(cache) : cache[i].key = key].payload]
    ELSE [res |-> "miss", payload |-> NoPayload]

\* a hit makes the entry the most recently used
CacheTouch(key) ==
    SelectSeq(cache, LAMBDA e : e.key # key) \o SelectSeq(cache, LAMBDA e : e.key = key)

\* a returned payload is stored; beyond maxsize the least recently used goes
CacheStore(key, p) ==
    LET c == Append(cache, [key |-> key, payload |-> p])
    IN  IF Len(c) > CacheMaxSize THEN Tail(c) ELSE c

\* str(state) inside an f-string: the text of the state, "None" for None
NoneText == <<"N", "o", "n", "e">>
StateText(p) == IF p.hasState THEN p.state ELSE NoneText

\* us_real_estate.py find_properties: formatted_location; "if state" is false
\* for None and for the empty text
formatted_location(p) ==
    LET c == Replace(Lower(p.city), " ", "-")
    IN  IF p.hasState /\ p.state # <<>> THEN c \o <<"-">> \o Lower(p.state) ELSE c

\* a templated URL: the site and the text put into its template
Url(site, txt) == [site |-> site, text |-> txt]

\* us_real_estate.py find_properties: urls, from the parsed location
FindUrlsUs(p) ==
    LET fl == formatted_location(p)
    IN  <<Url("zillow", fl), Url("realtor", fl),
          Url("redfin", StateText(p) \o <<"/">> \o fl), Url("trulia", fl)>>

\* us_real_estate.py get_market_trends: its one URL
TrendsUrlsUs(p) == <<Url("zillow-market", p.city \o <<"-">> \o StateText(p))>>

\* part_000 find_properties: urls, from city.lower()
FindUrlsIntl(city) ==
    LET fl == Lower(city)
    IN  <<Url("squareyards", fl), Url("99acres", fl), Url("housing", fl \o <<"/">> \o fl)>>

\* one find_properties invocation, as the log keeps it
Entry(f) ==
    [filters |-> f, agent |-> NoAgent, urls |-> <<>>, trends_urls |-> <<>>,
     extract |-> FALSE, payload |-> NoPayload, props |-> "none", status |-> "running",
     exc |-> ""]
SetLast(lg, e) == [lg EXCEPT ![Len(lg)] = e]
\* a new invocation starts: the log keeps it and the one before it
Remember(lg, e) == IF lg = <<>> THEN <<e>> ELSE <<lg[Len(lg)], e>>
Failed(e, exc) == [e EXCEPT !.status = "raised", !.exc = exc]

\* mutant: every search builds an agent from the current selection and keys
create_property_agent_always ==
    [exists |-> TRUE, model_id |-> model_id,
     keys |-> IF app = "intl" THEN BothKeys ELSE keys]

\* create_property_agent: an agent is built only when the session has none
create_property_agent ==
    IF property_agent.exists THEN property_agent
    ELSE [exists |-> TRUE, model_id |-> model_id,
          keys |-> IF app = "intl" THEN BothKeys ELSE keys]

\* mutant: the except clause shows nothing
ErrorMsgs_silent(a) == {}

\* main's except clause: st.error (and st.info in part_000)
ErrorMsgs(a) == IF a = "intl" THEN {"err_exception", "info_check_keys"} ELSE {"err_exception"}

SetRun(p, c, sh, se, u, pr) ==
    /\ pc' = p
    /\ calls' = c
    /\ shown' = sh
    /\ sections' = se
    /\ uncaught' = u
    /\ prompt' = pr

\* find_properties: the text handed to agent.run.  part_000 restates the
\* property type and the maximum price; us_real_estate.py embeds the list and
\* the regional figures only
AnalysisPrompt(a, f, items) ==
    [sent |-> TRUE,
     max_price |-> IF a = "intl" THEN Some(f.max_price) ELSE None,
     property_type |-> IF a = "intl" THEN f.property_type ELSE "",
     listing |-> items,
     properties |-> <<>>]

\* find_properties from the payload on: the properties list, then agent.run
FindFromPayload(lg, p, c, sh) ==
    LET cur == [lg[Len(lg)] EXCEPT !.payload = p]
        r == PropertiesOf(app, p)
    IN  IF r.raised
        THEN /\ log' = SetLast(lg, Failed([cur EXCEPT !.props = "raised"], r.exc))
             /\ SetRun("idle", c, sh \cup ErrorMsgs(app), {}, "", prompt)
        ELSE /\ log' = SetLast(lg, [cur EXCEPT !.props = r.items])
             /\ SetRun("analysis", [c EXCEPT !.model = @ + 1], sh, {}, "",
                       AnalysisPrompt(app, filters, r.items))

\* what a trends function does with its payload: it raises, returns its
\* fixed text, or hands the list to agent.run
NoTrends == [raised |-> FALSE, exc |-> "", items |-> "no_data"]

\* mutant: an empty list is answered with the fixed text, like a failure
TrendsOf_skipempty(a, p) ==
    IF a = "us"
    THEN IF ~p.isDict THEN Throws("AttributeError")
         ELSE IF ~p.success THEN NoTrends
         ELSE IF ~p.hasData THEN Throws("KeyError")
         ELSE IF ListOf(p).items = "empty" THEN NoTrends ELSE ListOf(p)
    ELSE IF p.isDict /\ p.success
         THEN IF ~p.hasData THEN Throws("KeyError")
              ELSE IF ListOf(p).items = "empty" THEN NoTrends ELSE ListOf(p)
         ELSE NoTrends

\* get_market_trends (us_real_estate.py) and get_location_trends (part_000)
\* from the payload on
TrendsOf(a, p) ==
    IF a = "us"
    THEN \* if raw_response.get('success'): raw_response['data'].get('trends', [])
         IF ~p.isDict THEN Throws("AttributeError")
         ELSE IF ~p.success THEN NoTrends               \* "No market trends data available"
         ELSE IF ~p.hasData THEN Throws("KeyError")
         ELSE ListOf(p)
    ELSE \* if isinstance(raw_response, dict) and raw_response.get('success'): ...
         IF p.isDict /\ p.success
         THEN IF ~p.hasData THEN Throws("KeyError") ELSE ListOf(p)
         ELSE NoTrends                                  \* "No price trends data available"

\* get_market_trends from the payload on
TrendsFromPayload(p, c, sh, se) ==
    LET t == TrendsOf(app, p)
    IN  IF t.raised THEN SetRun("idle", c, sh \cup ErrorMsgs(app), se, "", prompt)
        ELSE IF t.items = "no_data"
        THEN SetRun("idle", c, sh, se \cup {"trends", "considerations"}, "", prompt)
        ELSE SetRun("trends_model", [c EXCEPT !.model = @ + 1], sh, se, "", prompt)

\* get_market_trends up to its listings call
TrendsStart(c, sh, se) ==
    LET cs == cached_search(TrendsKey(filters))
    IN  CASE cs.res = "TypeError" ->
                /\ cache' = cache
                /\ SetRun("idle", c, sh \cup ErrorMsgs(app), se, "", prompt)
          [] cs.res = "hit" ->
                /\ cache' = CacheTouch(TrendsKey(filters))
                /\ TrendsFromPayload(cs.payload, c, sh, se)
          [] cs.res = "miss" ->
                /\ cache' = cache
                /\ SetRun("trends_listings", [c EXCEPT !.listings = @ + 1], sh, se, "", prompt)

\* us_real_estate.py main: the search button
PressSearchUs ==
    /\ app = "us"
    /\ pc = "idle"
    /\ pressed' = TRUE
    /\ UNCHANGED <<app, keys, model_id, filters, cache, locVars, mapVars>>
    /\ IF ~HasBoth(keys)
       THEN /\ SetRun("idle", NoCalls, {"err_missing_keys"}, {}, "", NoPrompt)
            /\ UNCHANGED <<property_agent, log>>
       ELSE \* create_property_agent(), then the spinner and find_properties
            /\ property_agent' = create_property_agent
            /\ log' = Remember(log, [Entry(filters) EXCEPT !.agent = create_property_agent])
            /\ SetRun("find", NoCalls, {}, {}, "", NoPrompt)

\* us_real_estate.py find_properties up to its listings call
FindPropertiesUs ==
    /\ app = "us"
    /\ pc = "find"
    /\ LET p == parse_location(filters.location)
           cur == log[Len(log)]
           lg == SetLast(log, [cur EXCEPT !.urls = FindUrlsUs(p)])
           cs == cached_search(FindKey(filters))
       IN  /\ location' = filters.location
           /\ parsed' = p
           /\ IF p.raised
              THEN /\ log' = SetLast(log, Failed(cur, p.exc))
                   /\ cache' = cache
                   /\ SetRun("idle", calls, shown \cup ErrorMsgs(app), sections, "", prompt)
              ELSE CASE cs.res = "TypeError" ->
                           /\ log' = SetLast(lg, Failed(lg[Len(lg)], "TypeError"))
                           /\ cache' = cache
                           /\ SetRun("idle", calls, shown \cup ErrorMsgs(app), sections, "", prompt)
                     [] cs.res = "hit" ->
                           /\ cache' = CacheTouch(FindKey(filters))
                           /\ FindFromPayload(lg, cs.payload, calls, shown)
                     [] cs.res = "miss" ->
                           /\ cache' = cache
                           /\ log' = SetLast(lg, [lg[Len(lg)] EXCEPT !.extract = TRUE])
                           /\ SetRun("listings", [calls EXCEPT !.listings = @ + 1], shown,
                                     sections, "", prompt)
    /\ UNCHANGED <<app, keys, model_id, property_agent, filters, pressed, mapVars>>

\* unnamed/part_000 main: the search button
PressSearchIntl ==
    /\ app = "intl"
    /\ pc = "idle"
    /\ pressed' = TRUE
    /\ property_agent' = create_property_agent
    /\ log' = Remember(log, [Entry(filters) EXCEPT !.agent = create_property_agent,
                                                    !.urls = FindUrlsIntl(filters.location),
                                                    !.extract = TRUE])
    /\ SetRun("listings", [NoCalls EXCEPT !.listings = 1], {}, {}, "", NoPrompt)
    /\ UNCHANGED <<app, keys, model_id, filters, cache, locVars, mapVars>>

----------------------------------------------------------------------------
(* The coordinate-based dashboard: ai_real_estate_agent.py main *)

\* mutant: a row with one of the two keys is handed back
get_keys_from_supabase_anykey(db, k) ==
    [found |-> db = "ok" /\ (k.listing \/ k.model),
     msgs |-> IF db = "query_failed" THEN {"err_supabase_query"} ELSE {}]

\* get_keys_from_supabase: the stored pair, or None with a message
get_keys_from_supabase(db, k) ==
    [found |-> db = "ok" /\ k.listing /\ k.model,
     msgs |-> CASE db = "query_failed" -> {"err_supabase_query"}
                [] k.listing \/ k.model -> {"warn_row_incomplete"}
                [] OTHER -> {"info_no_keys"}]

\* the malformed record of the dashboard runs: its location is null
BadRecord == [BaseRecord EXCEPT !.location = "null", !.address = "absent", !.line = TAbs]

\* upstream outcomes of a dashboard search
DashResponses ==
    {Failure(k) : k \in {"network_error", "http_error", "bad_json", "not_object"}}
    \cup {Json(FALSE, <<>>), Json(TRUE, <<>>), Json(TRUE, <<BaseRecord>>),
          Json(TRUE, <<BadRecord>>), Json(TRUE, <<BadRecord, BaseRecord>>)}

\* a run of main(): a page load, an edit of an input, or the search button
CoordRun ==
    /\ app = "coord"
    /\ pc = "idle"
    /\ \E db \in {"ok", "connect_failed", "query_failed"}, geo \in 0..2, press \in BOOLEAN,
          f \in Filters(app) :
          LET api_keys == get_keys_from_supabase(db, keys)
              search == press
          IN  IF db = "connect_failed"
              THEN /\ SetRun("idle", NoCalls, {"err_supabase"}, {}, "", NoPrompt)       \* st.stop()
                   /\ pressed' = FALSE
                   /\ filters' = filters
              ELSE IF ~api_keys.found
              THEN /\ SetRun("idle", NoCalls,
                             api_keys.msgs \cup {"warn_keys_missing", "key_form"}, {}, "", NoPrompt)
                   /\ pressed' = FALSE
                   /\ filters' = filters
              ELSE /\ pressed' = search
                   /\ filters' = f                    \* the sidebar filters
                   /\ SetRun(IF search THEN "listings" ELSE "idle",
                             [listings |-> IF search THEN 1 ELSE 0, model |-> 0, geocode |-> geo],
                             {"openai_ready"}, {}, "", NoPrompt)
    /\ UNCHANGED <<app, keys, model_id, property_agent, cache, log, locVars, mapVars>>

\* the key-entry form is submitted
SaveKeys ==
    /\ app = "coord"
    /\ pc = "idle"
    /\ "key_form" \in shown
    /\ \E rapidapi_key_input \in BOOLEAN, openai_key_input \in BOOLEAN, saved \in BOOLEAN :
          IF rapidapi_key_input /\ openai_key_input
          THEN IF saved
               THEN /\ keys' = BothKeys
                    /\ SetRun("idle", NoCalls, {"keys_saved"}, {}, "", NoPrompt)        \* st.experimental_rerun()
               ELSE /\ keys' = keys
                    /\ SetRun("idle", NoCalls, {"key_form", "err_save_failed"}, {}, "", NoPrompt)
          ELSE /\ keys' = keys
               /\ SetRun("idle", NoCalls, {"key_form", "warn_enter_both"}, {}, "", NoPrompt)
    /\ pressed' = FALSE
    /\ UNCHANGED <<app, model_id, property_agent, cache, filters, log, locVars, mapVars>>

\* mutant: the prompt is built from the result of the search before
CoordPrompt_stale(props) ==
    LET old == IF mapped.called THEN mapped.props ELSE <<>>
    IN  [sent |-> TRUE, max_price |-> None, property_type |-> "", listing |-> "none",
         properties |-> [i \in 1..Len(FirstTen(old)) |-> PromptLine(old[i])]]

\* main: the analysis prompt, from the first ten records of the result
CoordPrompt(props) ==
    [sent |-> TRUE, max_price |-> None, property_type |-> "", listing |-> "none",
     properties |-> [i \in 1..Len(FirstTen(props)) |-> PromptLine(props[i])]]

\* mutant: an empty result makes main poll the directory API until it has one
CoordAfterListings_poll(resp) ==
    LET res == search_properties_rapidapi(resp)
    IN  /\ response' = resp
        /\ mapped' = res
        /\ IF res.props # <<>>
           THEN SetRun("analysis", [calls EXCEPT !.model = @ + 1],
                       shown \cup res.shown \cup {"success_found"}, sections, "",
                       CoordPrompt(res.props))
           ELSE SetRun("listings", calls, shown \cup res.shown, sections, "", prompt)
        /\ UNCHANGED <<cache, log>>

\* mutant: an empty result makes main call search_properties_rapidapi again
CoordAfterListings_retry(resp) ==
    LET res == search_properties_rapidapi(resp)
    IN  /\ response' = resp
        /\ mapped' = res
        /\ IF res.props # <<>>
           THEN SetRun("analysis", [calls EXCEPT !.model = @ + 1],
                       shown \cup res.shown \cup {"success_found"}, sections, "",
                       CoordPrompt(res.props))
           ELSE IF calls.listings < 2
           THEN SetRun("listings", [calls EXCEPT !.listings = @ + 1],
                       shown \cup res.shown, sections, "", prompt)
           ELSE SetRun("idle", calls, shown \cup res.shown, sections, "NameError", prompt)
        /\ UNCHANGED <<cache, log>>

\* main after search_properties_rapidapi has returned
CoordAfterListings(resp) ==
    LET res == search_properties_rapidapi(resp)
    IN  /\ response' = resp
        /\ mapped' = res
        /\ IF res.props # <<>>
           THEN \* st.success, then the analysis call
                SetRun("analysis", [calls EXCEPT !.model = @ + 1],
                       shown \cup res.shown \cup {"success_found"}, sections, "",
                       CoordPrompt(res.props))
           ELSE \* the warning's text reads the undefined name radius
                SetRun("idle", calls, shown \cup res.shown, sections, "NameError", prompt)
        /\ UNCHANGED <<cache, log>>

\* find_properties / get_market_trends after firecrawl.extract has answered
ExtractAnswered(p) ==
    IF pc = "listings"
    THEN IF p.kind = "raise"
         THEN /\ log' = SetLast(log, Failed([log[Len(log)] EXCEPT !.payload = p], "ExtractError"))
              /\ cache' = cache
              /\ SetRun("idle", calls, shown \cup ErrorMsgs(app), sections, "", prompt)
         ELSE /\ cache' = IF app = "us" THEN CacheStore(FindKey(filters), p) ELSE cache
              /\ FindFromPayload(log, p, calls, shown)
    ELSE /\ log' = log
         /\ IF p.kind = "raise"
            THEN /\ cache' = cache
                 /\ SetRun("idle", calls, shown \cup ErrorMsgs(app), sections, "", prompt)
            ELSE /\ cache' = CacheStore(TrendsKey(filters), p)
                 /\ TrendsFromPayload(p, calls, shown, sections)

\* the listings call in flight comes back
ListingsReturn ==
    /\ pc \in {"listings", "trends_listings"}
    /\ IF app = "coord"
       THEN \E resp \in DashResponses : CoordAfterListings(resp)
       ELSE /\ \E p \in ExtractOutcomes : ExtractAnswered(p)
            /\ UNCHANGED <<response, mapped>>
    /\ UNCHANGED <<app, keys, model_id, property_agent, filters, pressed, locVars, rendered,
                   invoked>>

\* the rest of the coordinate dashboard's run: table, charts, note, cards
CoordVisuals == {"table", "price_chart", "cards"}

\* the model call in flight comes back
ModelReturn ==
    /\ pc \in {"analysis", "trends_model", "summary"}
    /\ \E ok \in BOOLEAN :
          CASE app = "coord" /\ pc = "analysis" ->
                  /\ UNCHANGED <<cache, log>>
                  /\ IF ok
                     THEN SetRun("summary", [calls EXCEPT !.model = @ + 1], shown,
                                 sections \cup {"analysis"}, "", prompt)
                     ELSE SetRun("idle", calls, shown \cup {"warn_analysis_failed"},
                                 sections \cup {"cards"}, "", prompt)
            [] app = "coord" /\ pc = "summary" ->
                  /\ UNCHANGED <<cache, log>>
                  /\ IF ok
                     THEN SetRun("idle", calls, shown \cup {"info_disclaimer"},
                                 sections \cup {"summary"} \cup CoordVisuals, "", prompt)
                     ELSE SetRun("idle", calls, shown \cup {"info_summary_failed", "info_disclaimer"},
                                 sections \cup CoordVisuals, "", prompt)
            [] app # "coord" /\ pc = "analysis" ->
                  IF ~ok
                  THEN /\ log' = SetLast(log, Failed(log[Len(log)], "ModelError"))
                       /\ cache' = cache
                       /\ SetRun("idle", calls, shown \cup ErrorMsgs(app), sections, "", prompt)
                  ELSE IF app = "intl"
                  THEN /\ log' = SetLast(log, [log[Len(log)] EXCEPT !.status = "returned"])
                       /\ cache' = cache
                       /\ SetRun("idle", calls, shown, sections \cup {"analysis"}, "", prompt)
                  ELSE /\ log' = SetLast(log, [log[Len(log)] EXCEPT
                                                  !.status = "returned",
                                                  !.trends_urls = TrendsUrlsUs(parse_location(filters.location))])
                       /\ TrendsStart(calls, shown, sections \cup {"analysis"})
            [] OTHER ->
                  /\ UNCHANGED <<cache, log>>
                  /\ IF ok
                     THEN SetRun("idle", calls, shown, sections \cup {"trends", "considerations"}, "", prompt)
                     ELSE SetRun("idle", calls, shown \cup ErrorMsgs(app), sections, "", prompt)
    /\ UNCHANGED <<app, keys, model_id, property_agent, filters, pressed, locVars, mapVars>>

\* a run of main() without the search button: nothing is called or shown
Rerun ==
    /\ pc = "idle"
    /\ pressed' = FALSE
    /\ SetRun("idle", NoCalls, {}, {}, "", NoPrompt)

\* the user edits the search inputs (location or city, property type)
EditFilters ==
    /\ app \in {"us", "intl"}
    /\ Rerun
    /\ \E f \in Filters(app) : filters' = f
    /\ UNCHANGED <<app, keys, model_id, property_agent, cache, log, locVars, mapVars>>

\* the user picks a model in the sidebar
SelectModel ==
    /\ app \in {"us", "intl"}
    /\ Rerun
    /\ \E m \in 1..Len(ModelIds(app)) : model_id' = ModelIds(app)[m]
    /\ UNCHANGED <<app, keys, filters, property_agent, cache, log, locVars, mapVars>>

\* the user types or clears the keys in the sidebar (us_real_estate.py)
EnterKeys ==
    /\ app = "us"
    /\ Rerun
    /\ \E k \in KeyStates : keys' = k
    /\ UNCHANGED <<app, model_id, filters, property_agent, cache, log, locVars, mapVars>>

\* the session starts: nothing entered; the credential store holds any row
Init ==
    /\ app \in Apps
    /\ keys \in CASE app = "us" -> {NoKeys}
                  [] app = "intl" -> {BothKeys}
                  [] OTHER -> KeyStates
    /\ model_id = ModelIds(app)[1]
    /\ property_agent = NoAgent
    /\ cache = <<>>
    /\ filters = StartFilters(app)
    /\ log = <<>>
    /\ InitRun
    /\ InitLocIdle
    /\ InitMapIdle

Next ==
    \/ EditFilters
    \/ SelectModel
    \/ EnterKeys
    \/ PressSearchUs
    \/ FindPropertiesUs
    \/ PressSearchIntl
    \/ CoordRun
    \/ SaveKeys
    \/ ListingsReturn
    \/ ModelReturn

Spec == Init /\ [][Next]_vars

\* The same dashboards with every call in flight answered in the end: main()
\* runs on one thread and blocks in each call until it returns or raises, and
\* find_properties runs on once the button handler has called it.
SpecLive ==
    /\ Init
    /\ [][Next]_vars
    /\ WF_vars(FindPropertiesUs)
    /\ WF_vars(ListingsReturn)
    /\ WF_vars(ModelReturn)

----------------------------------------------------------------------------
(* The search functions called on their own: each function with any search *)
(* inputs and any answer of its listings call                              *)

\* what a call ends in: an exception, or a return after `model` calls of
\* agent.run / chat.completions with `list` in the prompt
Escapes(e, seen) ==
    [raised |-> TRUE, exc |-> e, payload_seen |-> seen, model |-> 0, list |-> "none",
     text |-> ""]
Returns(m, l, t) ==
    [raised |-> FALSE, exc |-> "", payload_seen |-> TRUE, model |-> m, list |-> l, text |-> t]

\* before the call
NoOutcome ==
    [raised |-> FALSE, exc |-> "", payload_seen |-> FALSE, model |-> 0, list |-> "none",
     text |-> ""]

\* find_properties from the payload on
FindOutcome(a, q) ==
    LET r == PropertiesOf(a, q)
    IN  IF r.raised THEN Escapes(r.exc, TRUE) ELSE Returns(1, r.items, "analysis")

\* a trends function from the payload on
TrendsOutcome(a, q) ==
    LET t == TrendsOf(a, q)
    IN  IF t.raised THEN Escapes(t.exc, TRUE)
        ELSE IF t.items = "no_data" THEN Returns(0, "none", "no_data")
        ELSE Returns(1, t.items, "analysis")

\* PropertyFindingAgent.find_properties of dashboard a; p is what
\* firecrawl.extract answers when it is asked
find_properties(a, f, p) ==
    IF a = "us"
    THEN LET loc == parse_location(f.location)
             cs == cached_search(FindKey(f))
         IN  IF loc.raised THEN Escapes(loc.exc, FALSE)
             ELSE CASE cs.res = "TypeError" -> Escapes("TypeError", FALSE)
                    [] cs.res = "hit" -> FindOutcome(a, cs.payload)
                    [] OTHER -> IF p.kind = "raise" THEN Escapes("ExtractError", FALSE)
                                ELSE FindOutcome(a, p)
    ELSE IF p.kind = "raise" THEN Escapes("ExtractError", FALSE) ELSE FindOutcome(a, p)

\* us_real_estate.py: PropertyFindingAgent.get_market_trends
get_market_trends(f, p) ==
    LET loc == parse_location(f.location)
        cs == cached_search(TrendsKey(f))
    IN  IF loc.raised THEN Escapes(loc.exc, FALSE)
        ELSE CASE cs.res = "TypeError" -> Escapes("TypeError", FALSE)
               [] cs.res = "hit" -> TrendsOutcome("us", cs.payload)
               [] OTHER -> IF p.kind = "raise" THEN Escapes("ExtractError", FALSE)
                           ELSE TrendsOutcome("us", p)

\* unnamed/part_000: PropertyFindingAgent.get_location_trends
get_location_trends(f, p) ==
    IF p.kind = "raise" THEN Escapes("ExtractError", FALSE) ELSE TrendsOutcome("intl", p)

\* ai_real_estate_agent.py main from the button to the analysis call, with
\* both keys present
coord_search(resp) ==
    LET res == search_properties_rapidapi(resp)
    IN  IF res.props # <<>>
        THEN Returns(1, "some", "analysis")
        ELSE [Escapes("NameError", TRUE) EXCEPT !.list = "empty"]

SearchFunctions ==
    {[app |-> "us", name |-> "find_properties"],
     [app |-> "us", name |-> "get_market_trends"],
     [app |-> "intl", name |-> "find_properties"],
     [app |-> "intl", name |-> "get_location_trends"],
     [app |-> "coord", name |-> "main"]}

\* a function, its search inputs and the answer its listings call will get
SearchCalls ==
    {[called |-> FALSE, fn |-> fn, filters |-> f, payload |-> p, resp |-> [kind |-> "none"],
      out |-> NoOutcome] :
        fn \in {g \in SearchFunctions : g.app # "coord"},
        f \in Filters("us") \cup Filters("intl"), p \in ExtractOutcomes}
    \cup {[called |-> FALSE, fn |-> [app |-> "coord", name |-> "main"],
           filters |-> StartFilters("coord"), payload |-> NoPayload, resp |-> r,
           out |-> NoOutcome] : r \in DashResponses}

OutcomeOf(c) ==
    CASE c.fn.name = "find_properties" -> find_properties(c.fn.app, c.filters, c.payload)
      [] c.fn.name = "get_market_trends" -> get_market_trends(c.filters, c.payload)
      [] c.fn.name = "get_location_trends" -> get_location_trends(c.filters, c.payload)
      [] OTHER -> coord_search(c.resp)

InitFn ==
    /\ invoked \in {c \in SearchCalls : c.fn.app = "coord" \/ c.filters \in Filters(c.fn.app)}
    /\ response = [kind |-> "none"]
    /\ mapped = NotCalled
    /\ rendered = NotCalled
    /\ InitLocIdle
    /\ InitDashIdle

\* the function is called and runs to its return or its exception
Invoke ==
    /\ ~invoked.called
    /\ invoked' = [invoked EXCEPT !.called = TRUE, !.out = OutcomeOf(invoked)]
    /\ UNCHANGED <<locVars, response, mapped, rendered, sessionVars, runVars>>

NextFn == Invoke

SpecFn == InitFn /\ [][NextFn]_vars

----------------------------------------------------------------------------
(* Claims about the dashboards *)

Finished(e) == e.status # "running"

\* C1: in the US dashboard, two find_properties invocations with identical
\* filters issue the upstream extraction call exactly once between them, and
\* both see the same payload.
C1_SecondSearchCached ==
    (/\ app = "us"
     /\ Len(log) = 2
     /\ log[1].filters = log[2].filters
     /\ ~parse_location(log[1].filters.location).raised
     /\ Finished(log[1])
     /\ Finished(log[2]))
    => /\ log[1].extract
       /\ ~log[2].extract
       /\ log[1].payload.kind = "payload"
       /\ log[2].payload = log[1].payload

\* a payload that is unsuccessful or lacks an expected key
Unsuccessful(p) ==
    p.kind = "payload" /\ p.isDict /\ (~p.success \/ ~p.hasData \/ ~p.hasList)

\* C2: for a payload with success = false, or lacking the data block or the
\* list, the adapter yields an empty property list and throws nothing to its
\* caller (find_properties in both extraction variants, search_properties_rapidapi).
C2_EmptyOnBadPayload ==
    /\ \A i \in 1..Len(log) :
          Unsuccessful(log[i].payload) =>
              /\ log[i].props = "empty"
              /\ log[i].exc \notin {"KeyError", "AttributeError"}
    /\ (mapped.called /\ response.kind = "json" /\ ~response.hasProperties) =>
          /\ ~mapped.raised
          /\ mapped.props = <<>>

\* C3: when the external listings call fails, the adapter returns an empty
\* result set, a message is shown, and no exception leaves the adapter.
C3_FailureContained ==
    /\ \A i \in 1..Len(log) :
          log[i].payload.kind = "raise" =>
              /\ log[i].status # "raised"
              /\ log[i].props = "empty"
    /\ (mapped.called /\ response.kind \in {"network_error", "http_error", "bad_json"}) =>
          /\ ~mapped.raised
          /\ mapped.props = <<>>
          /\ mapped.shown # {}

C10_SearchEndsGracefully ==
    (app = "coord" /\ pressed /\ pc = "idle") =>
        /\ uncaught = ""
        /\ shown # {}
        /\ mapped.props = <<>> => "warn_none_found" \in shown

\* C11 (as stated): a failed model call is caught and replaced by a notice,
\* and the other outputs of the search are still produced: the cards of the
\* coordinate dashboard (and the table and charts when the summary call
\* failed), the market trends and key considerations of the extraction
\* dashboards.
C11_ModelFailureContained ==
    /\ (app = "coord" /\ pc = "idle" /\ "warn_analysis_failed" \in shown) =>
          "cards" \in sections
    /\ (app = "coord" /\ pc = "idle" /\ "info_summary_failed" \in shown) =>
          {"table", "price_chart", "cards"} \subseteq sections
    /\ (/\ app \in {"us", "intl"}
        /\ pc = "idle"
        /\ pressed
        /\ log # <<>>
        /\ log[Len(log)].exc = "ModelError") =>
          /\ shown # {}
          /\ {"trends", "considerations"} \subseteq sections

\* the observable state of the page
ErrorShown ==
    \/ uncaught # ""
    \/ shown \cap {"err_exception", "err_missing_keys", "err_supabase"} # {}
UiState ==
    IF pc # "idle" THEN "Searching"
    ELSE IF ErrorShown THEN "Error"
    ELSE IF pressed THEN "ResultsDisplayed"
    ELSE "AwaitingInput"

\* no exception of the run's search reached main
SearchReturned ==
    /\ uncaught = ""
    /\ app \in {"us", "intl"} => (log # <<>> /\ log[Len(log)].status = "returned")
    /\ app = "coord" => (mapped.called /\ mapped.props # <<>>)

UiStep ==
    \/ /\ UiState' = "Searching"                   \* a search button press
       /\ pc = "idle"
       /\ pressed'
    \/ /\ UiState = "Searching"                    \* the calls complete, or raise
       /\ UiState' \in {"ResultsDisplayed", "Error"}
    \/ /\ UiState \in {"ResultsDisplayed", "Error"}   \* a run without the button
       /\ UiState' = "AwaitingInput"
       /\ ~pressed'
    \/ /\ UiState # "Searching"                    \* keys missing, store unreachable
       /\ UiState' = "Error"
       /\ calls' = NoCalls
       /\ shown' \cap {"err_missing_keys", "err_supabase"} # {}

Rank(stage) ==
    CASE stage = "idle" -> 0
      [] stage = "find" -> 1
      [] stage = "listings" -> 2
      [] stage = "analysis" -> 3
      [] stage \in {"summary", "trends_listings"} -> 4
      [] stage = "trends_model" -> 5
Requests(c) == c.listings + c.model

\* C13: nothing is retried: a run started by the user issues each request at
\* most once.  Within a run a request is issued only on entering a later
\* stage, one at a time, so no stage's request is issued twice and a failed
\* request is issued again only by a new run.
C13_NoRetry ==
    /\ [][pc # "idle" =>
              /\ Requests(calls') \in {Requests(calls), Requests(calls) + 1}
              /\ calls'.geocode = calls.geocode
              /\ Requests(calls') # Requests(calls) => Rank(pc') > Rank(pc)]_vars
    /\ [][pc = "idle" => (calls'.listings <= 1 /\ calls'.model = 0)]_vars
    /\ [](/\ calls.listings <= (IF app = "us" THEN 2 ELSE 1)
          /\ calls.model <= (IF app = "intl" THEN 1 ELSE 2)
          /\ calls.geocode <= 2)

\* the analysis call of a search failed and the run ended: one model request
C13_Witness ==
    /\ app = "coord"
    /\ pc = "idle"
    /\ "warn_analysis_failed" \in shown
    /\ calls.listings = 1
    /\ calls.model = 1

\* C14 (as stated): every parameter set searched earlier in the session is
\* still in the cache of cached_search.
C14_NeverEvicted ==
    app = "us" =>
        \A i \in 1..Len(log) :
            (Finished(log[i]) /\ ~parse_location(log[i].filters.location).raised) =>
                \E j \in 1..Len(cache) : cache[j].key = FindKey(log[i].filters)

\* C15 (as stated): the analysis prompt handed to the model restates the
\* maximum price and the property type of the search.
C15_PromptRestatesConstraints ==
    prompt.sent =>
        /\ prompt.max_price = Some(filters.max_price)
        /\ prompt.property_type = filters.property_type

\* the listings call of the run has returned
ListingsBack ==
    /\ calls.listings >= 1
    /\ pc \notin {"find", "listings"}
    /\ app \in {"us", "intl"} => log[Len(log)].payload.kind = "payload"
    /\ app = "coord" => mapped.called

\* C18: data flows forward within a search: the analysis prompt exists only
\* after the listings call of the run has returned and holds that result, the
\* analysis is rendered only after the model call has returned, and no stage
\* is entered a second time.
C18_FlowsForward ==
    /\ [](prompt.sent =>
              /\ ListingsBack
              /\ calls.model >= 1
              /\ app \in {"us", "intl"} => prompt.listing = log[Len(log)].props
              /\ app = "coord" =>
                    /\ Len(prompt.properties) = Len(FirstTen(mapped.props))
                    /\ \A i \in 1..Len(prompt.properties) :
                          /\ prompt.properties[i].building_name = mapped.props[i].building_name
                          /\ prompt.properties[i].price = mapped.props[i].price)
    /\ [](pc = "analysis" => prompt.sent)
    /\ [](sections # {} => (prompt.sent /\ pc # "analysis"))
    /\ [][(pc # "idle" /\ pc' # "idle") => Rank(pc') > Rank(pc)]_vars

\* a search of part_000 went through listings, analysis and rendering
C18_Witness ==
    /\ app = "intl"
    /\ pc = "idle"
    /\ "analysis" \in sections
    /\ prompt.listing = "some"
    /\ calls = [listings |-> 1, model |-> 1, geocode |-> 0]

\* t occurs in s
HasSub(s, t) == \E k \in 0..(Len(s) - Len(t)) : SubSeq(s, k + 1, k + Len(t)) = t
\* the city of an invocation, and whether it has a state
CityOf(e) == IF app = "us" THEN parse_location(e.filters.location).city ELSE e.filters.location
HasState(e) == app = "us" /\ parse_location(e.filters.location).hasState
\* the city as a URL template wants it
Hyphenated(city) == [i \in 1..Len(city) |->
                        IF city[i] = " " THEN "-" ELSE IF city[i] = "A" THEN "a" ELSE city[i]]

\* C19 (as stated): every templated URL of a search holds the city
\* lower-cased with spaces replaced by hyphens, never the raw city, and
\* holds no "None" when no state was parsed.
C19_UrlsNormalised ==
    \A i \in 1..Len(log) :
        LET e == log[i]
            all == e.urls \o e.trends_urls
        IN  \A k \in 1..Len(all) :
                /\ HasSub(all[k].text, Hyphenated(CityOf(e)))
                /\ CityOf(e) # Hyphenated(CityOf(e)) => ~HasSub(all[k].text, CityOf(e))
                /\ ~HasState(e) => ~HasSub(all[k].text, NoneText)

\* a run that has finished
Finishing == UiState \in {"ResultsDisplayed", "Error"}

\* C21: a search that has started always finishes, given that every call in
\* flight returns or fails: Searching leads to ResultsDisplayed or Error; while
\* it runs, no user action takes effect (inputs, selections and keys keep their
\* values and the run is not restarted); and ResultsDisplayed comes only after
\* the listings call and the model call have both completed.
C21_SearchFinishes ==
    /\ (UiState = "Searching") ~> Finishing
    /\ [][pc # "idle" =>
              /\ UNCHANGED <<filters, keys, model_id, pressed>>
              /\ pc' # "idle" => Rank(pc') > Rank(pc)]_vars
    /\ [](UiState = "ResultsDisplayed" =>
              /\ calls.listings >= 1
              /\ calls.model >= 1
              /\ pc \notin {"listings", "analysis", "summary"})

\* a search went through the listings call and both model calls and shows
\* its results
C21_Witness ==
    /\ app = "coord"
    /\ pressed
    /\ UiState = "ResultsDisplayed"
    /\ calls.listings = 1
    /\ calls.model = 2
    /\ "summary" \in sections

\* C22: the session of an extraction dashboard holds at most one
\* PropertyFindingAgent: it is built at the first search from the model
\* identifier and keys in effect then, it is never replaced, and every search
\* of the session runs on it, whatever is selected or entered afterwards.
C22_OneAgentPerSession ==
    /\ [][property_agent.exists => property_agent' = property_agent]_vars
    /\ [][(~property_agent.exists /\ property_agent'.exists) =>
              /\ app \in {"us", "intl"}
              /\ pressed'
              /\ property_agent'.model_id = model_id
              /\ property_agent'.keys = (IF app = "intl" THEN BothKeys ELSE keys)]_vars
    /\ [](\A i \in 1..Len(log) :
              /\ property_agent.exists
              /\ log[i].agent = property_agent)

\* a second search ran after another model was selected: it used the agent,
\* and the model identifier, of the first search
C22_Witness ==
    /\ app = "us"
    /\ Len(log) = 2
    /\ Finished(log[2])
    /\ model_id = "gpt-4-turbo"
    /\ log[2].agent.model_id = "gpt-4o"
    /\ property_agent.model_id = "gpt-4o"

\* a payload that reports failure: not a dict, or success false or missing
ReportsFailure(p) == p.kind = "payload" /\ (~p.isDict \/ ~p.success)
\* a successful payload whose list is empty or missing
EmptyList(p) ==
    p.kind = "payload" /\ p.isDict /\ p.success /\ p.hasData /\ (~p.hasList \/ p.items = 0)
EmptyResult(c) == search_properties_rapidapi(c.resp).props = <<>>

\* C23 as stated: when the listings payload a search function obtained is
\* unsuccessful or empty, find_properties returns after exactly one model
\* call with an empty list in its prompt, a trends function returns its fixed
\* "no data available" text after no model call, and the coordinate-based
\* dashboard issues no model call when the mapped list is empty
C23_AsStated ==
    invoked.called =>
        LET c == invoked
            o == invoked.out
        IN  /\ (c.fn.name = "find_properties" /\ o.payload_seen
                    /\ (ReportsFailure(c.payload) \/ EmptyList(c.payload)))
                => (~o.raised /\ o.model = 1 /\ o.list = "empty")
            /\ (c.fn.name \in {"get_market_trends", "get_location_trends"} /\ o.payload_seen
                    /\ (ReportsFailure(c.payload) \/ EmptyList(c.payload)))
                => (~o.raised /\ o.model = 0 /\ o.text = "no_data")
            /\ (c.fn.name = "main" /\ EmptyResult(c)) => o.model = 0

\* C23: when the listings payload a search function obtained is unsuccessful
\* or holds an empty list, find_properties returns after exactly one model
\* call with an empty list in its prompt; a trends function returns its fixed
\* "no data available" text after no model call only for an unsuccessful
\* payload, and for a successful payload with an empty list it too issues
\* exactly one model call with the empty list; the coordinate-based dashboard
\* issues no model call when the mapped list is empty and one analysis call
\* otherwise; no call that ends in an exception has issued a model call
C23_ModelCallOnEmpty ==
    invoked.called =>
        LET c == invoked
            o == invoked.out
        IN  /\ (c.fn.name = "find_properties" /\ o.payload_seen
                    /\ (ReportsFailure(c.payload) \/ EmptyList(c.payload)))
                => (~o.raised /\ o.model = 1 /\ o.list = "empty")
            /\ (c.fn.name \in {"get_market_trends", "get_location_trends"} /\ o.payload_seen
                    /\ ReportsFailure(c.payload))
                => (~o.raised /\ o.model = 0 /\ o.text = "no_data")
            /\ (c.fn.name \in {"get_market_trends", "get_location_trends"} /\ o.payload_seen
                    /\ EmptyList(c.payload))
                => (~o.raised /\ o.model = 1 /\ o.list = "empty" /\ o.text = "analysis")
            /\ c.fn.name = "main" => (o.model = 0 <=> EmptyResult(c))
            /\ o.raised => o.model = 0

\* get_location_trends was called and firecrawl answered success with an
\* empty list: the model was asked about the empty list
C23_Witness ==
    /\ invoked.called
    /\ invoked.fn.name = "get_location_trends"
    /\ invoked.payload = Payload(TRUE, TRUE, TRUE, TRUE, 0)
    /\ invoked.out.model = 1
    /\ invoked.out.list = "empty"

====
